---- MODULE Spec2Model ----
(***************************************************************************)
(* A model of gastown/scripts/gen_hanoi.py: the recursive move enumerator  *)
(* hanoi_moves (run as an explicit call stack of solve frames) and the     *)
(* document emitter generate_formula (one print per step record).          *)
(***************************************************************************)
EXTENDS Integers, Sequences, FiniteSets, TLC

(* ------------------------------ bounds -------------------------------- *)

\* Largest disk count given to generate_formula.
MaxN == 5

\* Disk counts range down to -MaxNeg (the non-positive inputs).
MaxNeg == 2

\* Depth of nested solve calls at which the interpreter raises RecursionError.
\* Kept above MaxN + 1, as Python's limit (1000) is far above any usable n.
MaxDepth == 8

(* ------------------------------- state -------------------------------- *)

VARIABLES
    n_disks,   \* generate_formula's argument
    pc,        \* position in generate_formula
    stack,     \* active solve calls, outermost first
    moves,     \* the list hanoi_moves appends to and returns
    total,     \* len(moves), set when hanoi_moves has returned
    i,         \* the move loop's index (enumerate(moves, 1))
    out        \* the output sink: one element per print call, in order

vars == <<n_disks, pc, stack, moves, total, i, out>>

Pegs == {"A", "B", "C"}

\* n_disks as parsed by int(sys.argv[1]): any integer, here a bounded range.
NDomain == (0 - MaxNeg)..MaxN

(* --------------------------- hanoi_moves ------------------------------ *)

\* A call solve(n, src, tgt, aux), at the statement `at` of its body.
Frame(n, src, tgt, aux, at) ==
    [n |-> n, src |-> src, tgt |-> tgt, aux |-> aux, at |-> at]

\* The call hanoi_moves makes with its default pegs: solve(n, 'A', 'C', 'B').
OuterCall(n) == Frame(n, "A", "C", "B", "test")

IsBaseCaseOffByOne(n) == n = 0

IsBaseCaseAtMost(n) == n <= 1

\* if n == 1
IsBaseCase(n) == n = 1

BaseMoveReversed(f) == <<1, f.tgt, f.src>>

\* moves.append((1, src, tgt))
BaseMove(f) == <<1, f.src, f.tgt>>

MiddleMoveToAux(f) == <<f.n, f.src, f.aux>>

\* moves.append((n, src, tgt))
MiddleMove(f) == <<f.n, f.src, f.tgt>>

FirstCallNoDecrement(f) == Frame(f.n, f.src, f.aux, f.tgt, "test")

FirstCallNoSwap(f) == Frame(f.n - 1, f.src, f.tgt, f.aux, "test")

\* solve(n - 1, src, aux, tgt)
FirstCall(f) == Frame(f.n - 1, f.src, f.aux, f.tgt, "test")

SecondCallWrongTarget(f) == Frame(f.n - 1, f.aux, f.src, f.tgt, "test")

\* solve(n - 1, aux, tgt, src)
SecondCall(f) == Frame(f.n - 1, f.aux, f.tgt, f.src, "test")

Top == stack[Len(stack)]

Pop == SubSeq(stack, 1, Len(stack) - 1)

\* The top frame moved on to statement `at`.
TopAt(at) == [stack EXCEPT ![Len(stack)].at = at]

(* ------------------------- generate_formula --------------------------- *)

TotalOffByOne(ms) == Len(ms) + 1

\* total = len(moves)
Total(ms) == Len(ms)

\* f"move-{k}"
MoveId(k) == "move-" \o ToString(k)

PrevNoSetup(k) == MoveId(k - 1)

\* prev = "setup" if i == 1 else f"move-{i-1}"
Prev(k) == IF k = 1 THEN "setup" ELSE MoveId(k - 1)

\* The first print: the preamble (disk count and total in the description,
\* the formula name, the version) and the setup step, which has no needs key.
SetupStep(n, t) ==
    [id |-> "setup",
     preamble |-> [n_disks |-> n, total |-> t,
                   formula |-> "towers-of-hanoi-" \o ToString(n),
                   version |-> 1],
     title |-> "Verify initial state",
     description |-> <<n>>,
     needs |-> <<>>]

\* The print of the move loop for the k-th move m = (disk, src, tgt).
MoveStep(k, m, t) ==
    [id |-> MoveId(k),
     title |-> <<m[1], m[2], m[3]>>,
     description |-> <<m[1], m[2], m[3], k, t>>,
     needs |-> <<Prev(k)>>]

\* The last print: the verify step.
VerifyStep(n, t) ==
    [id |-> "verify",
     title |-> "Verify final state",
     description |-> <<n>>,
     needs |-> <<MoveId(t)>>]

(* ------------------------------ actions ------------------------------- *)

Init ==
    /\ n_disks \in NDomain
    /\ pc = "start"
    /\ stack = <<>>
    /\ moves = <<>>
    /\ total = 0
    /\ i = 0
    /\ out = <<>>

GenerateFormulaPrintsFirst ==
    /\ pc = "start"
    /\ pc' = "hanoi_moves"
    /\ moves' = <<>>
    /\ stack' = <<OuterCall(n_disks)>>
    /\ out' = Append(out, SetupStep(n_disks, 0))
    /\ UNCHANGED <<n_disks, total, i>>

\* generate_formula(n_disks) starts by calling hanoi_moves(n_disks), which
\* starts with an empty list and calls solve(n, source, target, auxiliary).
GenerateFormula ==
    /\ pc = "start"
    /\ pc' = "hanoi_moves"
    /\ moves' = <<>>
    /\ stack' = <<OuterCall(n_disks)>>
    /\ UNCHANGED <<n_disks, total, i, out>>

\* solve with n == 1: append the move and return.
SolveBase ==
    /\ pc = "hanoi_moves"
    /\ stack # <<>>
    /\ Top.at = "test"
    /\ IsBaseCase(Top.n)
    /\ moves' = Append(moves, BaseMove(Top))
    /\ stack' = Pop
    /\ UNCHANGED <<n_disks, pc, total, i, out>>

\* solve with n /= 1: the first recursive call.
SolveFirst ==
    /\ pc = "hanoi_moves"
    /\ stack # <<>>
    /\ Top.at = "test"
    /\ ~IsBaseCase(Top.n)
    /\ Len(stack) < MaxDepth
    /\ stack' = Append(TopAt("append"), FirstCall(Top))
    /\ UNCHANGED <<n_disks, pc, moves, total, i, out>>

\* Back from the first call: append (n, src, tgt), then the second call.
SolveSecond ==
    /\ pc = "hanoi_moves"
    /\ stack # <<>>
    /\ Top.at = "append"
    /\ Len(stack) < MaxDepth
    /\ moves' = Append(moves, MiddleMove(Top))
    /\ stack' = Append(TopAt("return"), SecondCall(Top))
    /\ UNCHANGED <<n_disks, pc, total, i, out>>

\* Back from the second call: solve returns.
SolveReturn ==
    /\ pc = "hanoi_moves"
    /\ stack # <<>>
    /\ Top.at = "return"
    /\ stack' = Pop
    /\ UNCHANGED <<n_disks, pc, moves, total, i, out>>

\* A call beyond the interpreter's recursion limit raises RecursionError,
\* which nothing catches: every frame is unwound and the process ends
\* without a print.
RecursionError ==
    /\ pc = "hanoi_moves"
    /\ stack # <<>>
    /\ (Top.at = "append" \/ (Top.at = "test" /\ ~IsBaseCase(Top.n)))
    /\ Len(stack) >= MaxDepth
    /\ pc' = "raised"
    /\ stack' = <<>>
    /\ UNCHANGED <<n_disks, moves, total, i, out>>

\* The outermost solve has returned: hanoi_moves returns moves, and
\* generate_formula takes its length.
HanoiReturn ==
    /\ pc = "hanoi_moves"
    /\ stack = <<>>
    /\ total' = Total(moves)
    /\ pc' = "preamble"
    /\ UNCHANGED <<n_disks, stack, moves, i, out>>

\* The first print, then the loop starts at i = 1.
PrintPreamble ==
    /\ pc = "preamble"
    /\ out' = Append(out, SetupStep(n_disks, total))
    /\ i' = 1
    /\ pc' = "loop"
    /\ UNCHANGED <<n_disks, stack, moves, total>>

\* One iteration of for i, (disk, src, tgt) in enumerate(moves, 1).
PrintMove ==
    /\ pc = "loop"
    /\ i <= Len(moves)
    /\ out' = Append(out, MoveStep(i, moves[i], total))
    /\ i' = i + 1
    /\ UNCHANGED <<n_disks, pc, stack, moves, total>>

\* The loop is exhausted: the last print.
PrintVerify ==
    /\ pc = "loop"
    /\ i > Len(moves)
    /\ out' = Append(out, VerifyStep(n_disks, total))
    /\ pc' = "done"
    /\ UNCHANGED <<n_disks, stack, moves, total, i>>

Next ==
    \/ GenerateFormula
    \/ SolveBase
    \/ SolveFirst
    \/ SolveSecond
    \/ SolveReturn
    \/ RecursionError
    \/ HanoiReturn
    \/ PrintPreamble
    \/ PrintMove
    \/ PrintVerify

Spec == Init /\ [][Next]_vars

\* The program is one sequential process that runs until it exits or raises.
FairSpec == Spec /\ WF_vars(Next)

(* ----------------- the puzzle, for stating C1 and C2 ------------------ *)

\* A puzzle state maps each peg to its disks, bottom first.
RECURSIVE Tower(_)
Tower(n) == IF n <= 0 THEN <<>> ELSE <<n>> \o Tower(n - 1)

\* All n disks stacked on peg A, largest on bottom (the setup step's words).
InitialPegs(n) == [p \in Pegs |-> IF p = "A" THEN Tower(n) ELSE <<>>]

\* All n disks on peg C, tower intact (the verify step's words).
SolvedPegs(n) == [p \in Pegs |-> IF p = "C" THEN Tower(n) ELSE <<>>]

TopDisk(t) == t[Len(t)]

\* The standard rule: the disk is the top of its source peg, and the target
\* peg is empty or has a larger disk on top.
LegalMove(pegs, m) ==
    /\ m[2] # m[3]
    /\ pegs[m[2]] # <<>>
    /\ TopDisk(pegs[m[2]]) = m[1]
    /\ (pegs[m[3]] = <<>> \/ TopDisk(pegs[m[3]]) > m[1])

ApplyMove(pegs, m) ==
    [p \in Pegs |->
        IF p = m[2] /\ p # m[3] THEN SubSeq(pegs[p], 1, Len(pegs[p]) - 1)
        ELSE IF p = m[3] /\ p # m[2] THEN Append(pegs[p], m[1])
        ELSE pegs[p]]

\* The puzzle state after the first k moves of ms, from n disks on peg A.
RECURSIVE PegsAfter(_, _, _)
PegsAfter(ms, k, n) ==
    IF k = 0 THEN InitialPegs(n)
    ELSE CHOOSE after \in {ApplyMove(before, ms[k]) :
                              before \in {PegsAfter(ms, k - 1, n)}} : TRUE

\* No larger disk above a smaller one, on any peg.
Ordered(pegs) ==
    \A p \in Pegs : \A a, b \in 1..Len(pegs[p]) :
        a < b => pegs[p][a] > pegs[p][b]

\* Every move of ms from the k-th on is legal in the state it is made in,
\* and leaves the pegs ordered; pegs is the state before the k-th move.
RECURSIVE ReplayLegal(_, _, _)
ReplayLegal(pegs, ms, k) ==
    IF k > Len(ms) THEN TRUE
    ELSE /\ LegalMove(pegs, ms[k])
         /\ \A after \in {ApplyMove(pegs, ms[k])} :
                Ordered(after) /\ ReplayLegal(after, ms, k + 1)

\* hanoi_moves has returned its list to generate_formula.
Returned == pc \in {"preamble", "loop", "done"}

(* ------------------------------- claims ------------------------------- *)

\* C1: replaying the moves of hanoi_moves(n), n >= 1, from all disks on peg
\* A, every move is legal (the disk moved is the top of its source peg, the
\* target peg is empty or has a larger disk on top) and no state of the
\* replay has a larger disk above a smaller one.
C1_MovesLegal ==
    n_disks >= 1 =>
        ReplayLegal(InitialPegs(n_disks), moves, 1)

C1_Witness == Returned /\ n_disks >= 3 /\ Len(moves) >= 7

\* C2: for n >= 1, after all moves of hanoi_moves(n) are applied to the
\* initial state, all n disks are on peg C in size order and A and B are
\* empty.
C2_Solved ==
    (n_disks >= 1 /\ Returned) =>
        PegsAfter(moves, Len(moves), n_disks) = SolvedPegs(n_disks)

C2_Witness ==
    /\ pc = "done"
    /\ n_disks >= 3
    /\ PegsAfter(moves, Len(moves), n_disks)["C"] = Tower(n_disks)

\* C3: for n >= 1, hanoi_moves(n) returns exactly 2^n - 1 moves.
C3_Length == (n_disks >= 1 /\ Returned) => Len(moves) = 2^n_disks - 1

C3_Witness == pc = "preamble" /\ n_disks >= 3 /\ Len(moves) = 2^n_disks - 1

\* The step of doc with the given id.
StepWithId(doc, id) == CHOOSE s \in {doc[k] : k \in 1..Len(doc)} : s.id = id

HasId(doc, id) == \E k \in 1..Len(doc) : doc[k].id = id

\* The ids met following needs pointers from id, at most fuel steps.
RECURSIVE Chain(_, _, _)
Chain(doc, id, fuel) ==
    IF fuel = 0 \/ ~HasId(doc, id) THEN <<>>
    ELSE IF StepWithId(doc, id).needs = <<>> THEN <<id>>
    ELSE <<id>> \o Chain(doc, StepWithId(doc, id).needs[1], fuel - 1)

\* verify, move-t, move-(t-1), ..., move-1, setup.
DescendingChain(t) ==
    [k \in 1..(t + 2) |->
        IF k = 1 THEN "verify"
        ELSE IF k = t + 2 THEN "setup"
        ELSE MoveId(t + 2 - k)]

\* C4: the document emitted by generate_formula(n), n >= 1, has exactly
\* 2^n - 1 + 2 steps with pairwise distinct ids; setup has no needs entry and
\* every other step exactly one; every needs entry names a step of the
\* document; and following needs from verify visits move-total, ..., move-1
\* in descending order, each once, and ends at setup, reaching every step.
C4_ChainIntegrity ==
    (n_disks >= 1 /\ pc = "done") =>
        LET t == 2^n_disks - 1 IN
        /\ Len(out) = t + 2
        /\ \A a, b \in 1..Len(out) : a # b => out[a].id # out[b].id
        /\ \A k \in 1..Len(out) :
              /\ Len(out[k].needs) = (IF out[k].id = "setup" THEN 0 ELSE 1)
              /\ \A j \in 1..Len(out[k].needs) : HasId(out, out[k].needs[j])
        /\ HasId(out, "setup") /\ HasId(out, "verify")
        /\ Chain(out, "verify", Len(out) + 1) = DescendingChain(t)

C4_Witness ==
    /\ pc = "done"
    /\ n_disks >= 3
    /\ Len(Chain(out, "verify", Len(out) + 1)) = Len(out)

\* The recursive decomposition: the moves that take k disks from peg s to
\* peg t with a as auxiliary.
RECURSIVE Decomposition(_, _, _, _)
Decomposition(k, s, t, a) ==
    IF k = 1 THEN << <<1, s, t>> >>
    ELSE Decomposition(k - 1, s, a, t) \o << <<k, s, t>> >>
            \o Decomposition(k - 1, a, t, s)

\* C5: hanoi_moves(1) is the single move (1, A, C); for n >= 2,
\* hanoi_moves(n) is the 2^(n-1) - 1 moves solving n-1 disks from A to B with
\* C as auxiliary, then (n, A, C) at position 2^(n-1), then the 2^(n-1) - 1
\* moves solving n-1 disks from B to C with A as auxiliary.
C5_Decomposition ==
    (n_disks >= 1 /\ Returned) =>
        IF n_disks = 1 THEN moves = << <<1, "A", "C">> >>
        ELSE LET h == 2^(n_disks - 1) IN
             /\ Len(moves) = 2 * h - 1
             /\ SubSeq(moves, 1, h - 1) = Decomposition(n_disks - 1, "A", "B", "C")
             /\ Len(Decomposition(n_disks - 1, "A", "B", "C")) = h - 1
             /\ moves[h] = <<n_disks, "A", "C">>
             /\ SubSeq(moves, h + 1, 2 * h - 1)
                    = Decomposition(n_disks - 1, "B", "C", "A")

C5_Witness ==
    /\ Returned
    /\ n_disks >= 3
    /\ moves[2^(n_disks - 1)] = <<n_disks, "A", "C">>

\* C6 as stated: for all n >= 1 the first move of hanoi_moves(n) is
\* (1, A, B), disk 1 from the source peg to the auxiliary peg.
C6_FirstMoveToAux ==
    (n_disks >= 1 /\ Returned) => moves[1] = <<1, "A", "B">>

\* C6 amended: for all n >= 1 the first move of hanoi_moves(n) moves disk 1
\* from the source peg A: to the auxiliary peg B when n is even, to the
\* target peg C when n is odd.
C6_FirstMoveByParity ==
    (n_disks >= 1 /\ Returned) =>
        moves[1] = <<1, "A", IF n_disks % 2 = 0 THEN "B" ELSE "C">>

C6_Witness == Returned /\ n_disks = 3 /\ moves[1] = <<1, "A", "C">>

\* Move records written so far.
MovesWritten ==
    Cardinality({k \in 1..Len(out) : out[k].id \notin {"setup", "verify"}})

\* Moves produced by the enumerator and not yet written.
Pending == Len(moves) - MovesWritten

\* C7 as stated: at every point of a run the number of moves produced but
\* not yet written is bounded by about one record, whatever n is.
C7_Streamed == n_disks >= 1 => Pending <= 1

\* C7 amended: emission is not fused with enumeration. Nothing is written
\* until hanoi_moves has returned all 2^n - 1 moves, so the moves produced
\* but not yet written reach 2^n - 1; from then on each loop iteration writes
\* one record, move i being written when 2^n - i moves are pending.
C7_EagerThenWritten ==
    n_disks >= 1 =>
        /\ ~Returned => out = <<>>
        /\ Returned => Len(moves) = 2^n_disks - 1
        /\ pc = "preamble" => Pending = 2^n_disks - 1
        /\ pc = "loop" => Pending = 2^n_disks - i
        /\ pc = "done" => Pending = 0

C7_Witness ==
    /\ pc = "preamble"
    /\ n_disks >= 3
    /\ out = <<>>
    /\ Pending = 2^n_disks - 1

\* C8: for n >= 1 hanoi_moves(n) terminates (every solve call returns and
\* the list is returned), and the depth of active solve calls never exceeds n.
C8_TerminatesWithinDepth ==
    /\ [](n_disks >= 1 => Len(stack) <= n_disks)
    /\ (n_disks >= 1) ~> (Returned /\ stack = <<>>)

C8_Witness ==
    /\ n_disks >= 3
    /\ pc = "hanoi_moves"
    /\ Len(stack) = n_disks
    /\ stack[Len(stack)].n = 1

\* C9: the writes of generate_formula(n), n >= 1, are in order the preamble
\* with the setup step, then move-1, ..., move-total in increasing i, then
\* verify, each once; record move-i carries disk, source and target of the
\* i-th move of hanoi_moves(n); and the total shown in the preamble and in
\* every record equals the number of move records written.
C9_WriteOrder ==
    n_disks >= 1 =>
        /\ Len(out) <= Len(moves) + 2
        /\ \A k \in 1..Len(out) :
              IF k = 1 THEN out[k].id = "setup"
              ELSE IF k = Len(moves) + 2 THEN out[k].id = "verify" /\ pc = "done"
              ELSE /\ out[k].id = MoveId(k - 1)
                   /\ out[k].title = moves[k - 1]
                   /\ SubSeq(out[k].description, 1, 3) = moves[k - 1]
                   /\ out[k].description[4] = k - 1
        /\ pc = "done" =>
              /\ Len(out) = Len(moves) + 2
              /\ out[1].preamble.total = MovesWritten
              /\ \A k \in 2..(Len(out) - 1) :
                    out[k].description[5] = MovesWritten

C9_Witness ==
    /\ pc = "done"
    /\ n_disks >= 3
    /\ out[Len(out)].id = "verify"
    /\ MovesWritten = 2^n_disks - 1

\* C10: for n <= 0 the recursion never reaches the base case n == 1 (the
\* disk count only decreases), hanoi_moves never returns a list, and nothing
\* is written to the output, not even the preamble or the setup step.
C10_NoOutputForNonPositive ==
    n_disks <= 0 =>
        /\ out = <<>>
        /\ moves = <<>>
        /\ ~Returned
        /\ \A k \in 1..Len(stack) :
              /\ stack[k].n <= 0
              /\ stack[k].n = n_disks - (k - 1)

C10_Witness == n_disks <= 0 /\ pc = "raised"

====
